---- MODULE Spec2Model ----
\* A model of the dunbrack rotamer library: the grid index (grid.rs), the
\* bilinear / circular interpolation engine and the eagerly built iterator
\* (interp.rs), the rotamer record (rotamer.rs) and the residue dispatch
\* (residue.rs).
\*
\* f32 values are modelled as tagged fixed-point numbers: a finite value is an
\* integer count of 1/Scale units, and NaN and the two infinities are values of
\* their own.  Every multiplication and division rounds to the nearest unit, as
\* every f32 operation rounds to the nearest representable value.
EXTENDS Integers, Sequences, FiniteSets, TLC

\* ------------------------------------------------------------------ bounds
Resolution == 4000        \* units per tenth: the finite values are multiples of 1/(10*Resolution)
NumTables == 2            \* data variants of each residue's table
NumThreads == 2           \* caller threads
MaxCalls == 5             \* calls of next made on one returned iterator

Scale == 10 * Resolution
Threads == 1..NumThreads

\* ------------------------------------------------------------ f32 values
Fin(v) == [k |-> "fin", v |-> v]
NaN == [k |-> "nan", v |-> 0]
PInf == [k |-> "inf", v |-> 1]
NInf == [k |-> "inf", v |-> -1]

Zero == Fin(0)
One == Fin(Scale)
Deg(d) == Fin(d * Scale)

IsNaN(x) == x.k = "nan"
IsInf(x) == x.k = "inf"
IsFin(x) == x.k = "fin"
is_finite(x) == x.k = "fin"

Abs(n) == IF n < 0 THEN -n ELSE n
Sgn(n) == IF n < 0 THEN -1 ELSE IF n > 0 THEN 1 ELSE 0
MinI(a, b) == IF a < b THEN a ELSE b
MaxI(a, b) == IF a > b THEN a ELSE b

\* n / d rounded to the nearest integer (d > 0), halves away from zero.
RoundDiv(n, d) == IF n >= 0 THEN (n + d \div 2) \div d ELSE -((d \div 2 - n) \div d)

\* a * b / Scale rounded to the nearest unit; the operands are split so that no
\* intermediate product leaves the 32-bit range.
MulFix(a, b) ==
  LET qa == Abs(a) \div Scale
      ra == Abs(a) % Scale
      qb == Abs(b) \div Scale
      rb == Abs(b) % Scale
  IN  Sgn(a) * Sgn(b) * (qa * qb * Scale + qa * rb + ra * qb + (ra * rb + Scale \div 2) \div Scale)

\* a * Scale / b rounded to the nearest unit (b # 0).
DivFix(a, b) ==
  LET n == Abs(a)
      d == Abs(b)
  IN  Sgn(a) * Sgn(b) * ((n \div d) * Scale + ((n % d) * Scale + d \div 2) \div d)

\* a * num / den rounded to the nearest unit, for a constant ratio num/den.
MulRatio(a, num, den) ==
  LET n == Abs(a)
  IN  Sgn(a) * ((n \div den) * num + ((n % den) * num + den \div 2) \div den)

\* x < y and x > y on f32: every comparison with NaN is false.
FLt(x, y) ==
  IF IsNaN(x) \/ IsNaN(y) THEN FALSE
  ELSE IF IsInf(x) THEN x.v < 0 /\ ~(IsInf(y) /\ y.v < 0)
  ELSE IF IsInf(y) THEN y.v > 0
  ELSE x.v < y.v
FGt(x, y) == FLt(y, x)

FNeg(x) == IF IsNaN(x) THEN NaN ELSE [k |-> x.k, v |-> -x.v]

FAdd(x, y) ==
  IF IsNaN(x) \/ IsNaN(y) THEN NaN
  ELSE IF IsInf(x) /\ IsInf(y) THEN (IF x.v = y.v THEN x ELSE NaN)
  ELSE IF IsInf(x) THEN x
  ELSE IF IsInf(y) THEN y
  ELSE Fin(x.v + y.v)
FSub(x, y) == FAdd(x, FNeg(y))

FMul(x, y) ==
  IF IsNaN(x) \/ IsNaN(y) THEN NaN
  ELSE IF IsInf(x) \/ IsInf(y)
       THEN (IF x.v = 0 \/ y.v = 0 THEN NaN ELSE [k |-> "inf", v |-> Sgn(x.v) * Sgn(y.v)])
  ELSE Fin(MulFix(x.v, y.v))

FDiv(x, y) ==
  IF IsNaN(x) \/ IsNaN(y) THEN NaN
  ELSE IF IsInf(x) THEN (IF IsInf(y) THEN NaN
                         ELSE [k |-> "inf", v |-> x.v * (IF y.v < 0 THEN -1 ELSE 1)])
  ELSE IF IsInf(y) THEN Zero
  ELSE IF y.v = 0 THEN (IF x.v = 0 THEN NaN ELSE [k |-> "inf", v |-> Sgn(x.v)])
  ELSE Fin(DivFix(x.v, y.v))

\* f32::clamp: NaN stays NaN, everything else is saturated to [lo, hi].
clamp(x, lo, hi) == IF FLt(x, lo) THEN lo ELSE IF FGt(x, hi) THEN hi ELSE x

usize_MAX == 2147483647
\* `x as usize`: truncation toward zero, saturating, NaN to 0.
as_usize(x) ==
  IF IsNaN(x) THEN 0
  ELSE IF IsInf(x) THEN (IF x.v > 0 THEN usize_MAX ELSE 0)
  ELSE IF x.v < 0 THEN 0 ELSE x.v \div Scale
\* `n as f32`
as_f32(n) == Fin(n * Scale)

\* ------------------------------------------------------------- grid.rs
GRID_MIN == Deg(-180)
GRID_STEP == Deg(10)
GRID_COUNT == 37

\* angle_to_grid with `.min(GRID_COUNT - 1)`: lo may be the last grid index.
angle_to_grid_last(deg) ==
  LET shifted == FMul(FAdd(clamp(deg, GRID_MIN, FNeg(GRID_MIN)), FNeg(GRID_MIN)),
                      FDiv(One, GRID_STEP))
      lo == MinI(as_usize(shifted), GRID_COUNT - 1)
      frac == FSub(shifted, as_f32(lo))
  IN  [lo |-> lo, frac |-> frac]

\* angle_to_grid with the fraction taken from the index before `.min`: frac is
\* 0 at the upper end instead of 1.
angle_to_grid_trunc(deg) ==
  LET shifted == FMul(FAdd(clamp(deg, GRID_MIN, FNeg(GRID_MIN)), FNeg(GRID_MIN)),
                      FDiv(One, GRID_STEP))
      lo == MinI(as_usize(shifted), GRID_COUNT - 2)
      frac == FSub(shifted, as_f32(as_usize(shifted)))
  IN  [lo |-> lo, frac |-> frac]

angle_to_grid(deg) ==
  LET shifted == FMul(FAdd(clamp(deg, GRID_MIN, FNeg(GRID_MIN)), FNeg(GRID_MIN)),
                      FDiv(One, GRID_STEP))
      lo == MinI(as_usize(shifted), GRID_COUNT - 2)
      frac == FSub(shifted, as_f32(lo))
  IN  [lo |-> lo, frac |-> frac]

\* ------------------------------------------------------------ rotamer.rs
\* Rotamer<N>: arrays are functions on 0..N-1.
Rotamer(r, prob, chi_mean, chi_sigma) ==
  [r |-> r, prob |-> prob, chi_mean |-> chi_mean, chi_sigma |-> chi_sigma]

\* ------------------------------------------------- libm (sinf, cosf), math.rs
\* pi in units, from the ratio 355/113 (exact to 3e-7, finer than one unit).
PI == Fin(MulRatio(Scale, 355, 113))
FRAC_PI_2 == Fin(RoundDiv(PI.v, 2))
FRAC_PI_4 == Fin(RoundDiv(PI.v, 4))
\* SQRT_2 - 1.0
TAN_PI_8 == Fin(MulRatio(Scale, 41421, 100000))

\* x * DEG_TO_RAD with DEG_TO_RAD = PI / 180.0: the f32 factor carries 24
\* significant bits, so the product is taken with the ratio pi/180 = 355/20340.
DEG_TO_RAD(x) == IF IsFin(x) THEN Fin(MulRatio(x.v, 355, 20340)) ELSE IF IsInf(x) THEN x ELSE NaN
\* x * RAD_TO_DEG with RAD_TO_DEG = 180.0 / PI, taken as x * 180 / PI so that
\* PI * RAD_TO_DEG is 180.0, as it is in f32.
RAD_TO_DEG(x) ==
  IF IsFin(x) THEN Fin(10 * Sgn(x.v) * MulRatio(180 * Abs(x.v), Resolution, PI.v))
  ELSE IF IsInf(x) THEN x ELSE NaN

\* sin on [-pi/2, pi/2] in units: x - x^3/3! + x^5/5! - x^7/7! + x^9/9!.
SinPoly(x) ==
  LET x2 == MulFix(x, x)
      t4 == Scale - RoundDiv(x2, 72)
      t3 == Scale - RoundDiv(MulFix(x2, t4), 42)
      t2 == Scale - RoundDiv(MulFix(x2, t3), 20)
      t1 == Scale - RoundDiv(MulFix(x2, t2), 6)
  IN  MulFix(x, t1)

\* Fold an angle of [-2pi, 2pi] into [-pi/2, pi/2] keeping its sine.
SinFold(x) ==
  LET a == IF x > PI.v THEN x - 2 * PI.v ELSE IF x < -PI.v THEN x + 2 * PI.v ELSE x
  IN  IF a > FRAC_PI_2.v THEN PI.v - a
      ELSE IF a < -FRAC_PI_2.v THEN -PI.v - a
      ELSE a

sinf(x) == IF IsFin(x) THEN Fin(SinPoly(SinFold(x.v))) ELSE NaN
cosf(x) == IF IsFin(x) THEN Fin(SinPoly(SinFold(FRAC_PI_2.v - Abs(x.v)))) ELSE NaN

\* f32::min / f32::max: a NaN operand is ignored.
f32_min(x, y) == IF IsNaN(x) THEN y ELSE IF IsNaN(y) THEN x ELSE IF FLt(y, x) THEN y ELSE x
f32_max(x, y) == IF IsNaN(x) THEN y ELSE IF IsNaN(y) THEN x ELSE IF FGt(y, x) THEN y ELSE x
f32_abs(x) == IF IsNaN(x) THEN NaN ELSE [k |-> x.k, v |-> Abs(x.v)]
\* f32::copysign(x, y); the sign of a zero is not modelled and taken as +.
copysign(x, y) == IF IsNaN(x) THEN NaN ELSE IF y.v < 0 THEN FNeg(f32_abs(x)) ELSE f32_abs(x)

\* The two argument reductions of atan2f with the subtraction taken the other
\* way round: s = (1 - t) / (1 + t).
atan2f_reduce_abs(y, x) ==
  LET ax == f32_abs(x)
      ay == f32_abs(y)
      t == FDiv(f32_min(ax, ay), f32_max(ax, ay))
      red == FGt(t, TAN_PI_8)
  IN  [swapped |-> FGt(ay, ax),
       t |-> t,
       s |-> IF red THEN FDiv(FSub(One, t), FAdd(t, One)) ELSE t,
       offset |-> IF red THEN FRAC_PI_4 ELSE Zero]

\* The two argument reductions of atan2f: swapped, t, s and offset.
atan2f_reduce(y, x) ==
  LET ax == f32_abs(x)
      ay == f32_abs(y)
      t == FDiv(f32_min(ax, ay), f32_max(ax, ay))
      red == FGt(t, TAN_PI_8)
  IN  [swapped |-> FGt(ay, ax),
       t |-> t,
       s |-> IF red THEN FDiv(FSub(t, One), FAdd(t, One)) ELSE t,
       offset |-> IF red THEN FRAC_PI_4 ELSE Zero]

atan2f(y, x) ==
  LET red == CHOOSE v \in {atan2f_reduce(y, x)} : TRUE
      s == red.s
      s2 == FMul(s, s)
      p == FMul(s, FAdd(One, FMul(s2, FAdd(FDiv(Fin(-Scale), Fin(3 * Scale)),
                 FMul(s2, FAdd(FDiv(One, Fin(5 * Scale)),
                 FMul(s2, FDiv(Fin(-Scale), Fin(7 * Scale)))))))))
      r0 == FAdd(p, red.offset)
      r == IF red.swapped THEN FSub(FRAC_PI_2, r0) ELSE r0
  IN  copysign(IF FLt(x, Zero) THEN FSub(PI, r) ELSE r, y)

\* libm::atan2f as circular_mean calls it: the same angle, and 0 at (0, 0).
libm_atan2f(y, x) == IF y = Zero /\ x = Zero THEN Zero ELSE atan2f(y, x)

\* ------------------------------------------------------------- interp.rs
Corner == 0..3

\* sin_sum and cos_sum of circular_mean when its loop has ended.
sin_sum(weights, angles) ==
  FAdd(FAdd(FAdd(FAdd(Zero, FMul(weights[0], sinf(DEG_TO_RAD(angles[0])))),
                 FMul(weights[1], sinf(DEG_TO_RAD(angles[1])))),
            FMul(weights[2], sinf(DEG_TO_RAD(angles[2])))),
       FMul(weights[3], sinf(DEG_TO_RAD(angles[3]))))
cos_sum(weights, angles) ==
  FAdd(FAdd(FAdd(FAdd(Zero, FMul(weights[0], cosf(DEG_TO_RAD(angles[0])))),
                 FMul(weights[1], cosf(DEG_TO_RAD(angles[1])))),
            FMul(weights[2], cosf(DEG_TO_RAD(angles[2])))),
       FMul(weights[3], cosf(DEG_TO_RAD(angles[3]))))

\* The plain weighted average of the four angles, without sin and cos.
circular_mean_linear(weights, angles) ==
  FAdd(FAdd(FAdd(FMul(weights[0], angles[0]), FMul(weights[1], angles[1])),
            FMul(weights[2], angles[2])),
       FMul(weights[3], angles[3]))

circular_mean(weights, angles) ==
  RAD_TO_DEG(libm_atan2f(sin_sum(weights, angles), cos_sum(weights, angles)))

\* The four values averaged with equal weights, whatever the weights given.
bilinear_unweighted(weights, values) ==
  FMul(FAdd(FAdd(FAdd(values[0], values[1]), values[2]), values[3]), Fin(Scale \div 4))

bilinear(weights, values) ==
  FAdd(FAdd(FAdd(FMul(weights[0], values[0]), FMul(weights[1], values[1])),
            FMul(weights[2], values[2])),
       FMul(weights[3], values[3]))

\* The weight w10 with its sign reversed.
Weights_signed(frac_phi, frac_psi) ==
  [c \in Corner |->
     CASE c = 0 -> FMul(FSub(One, frac_phi), FSub(One, frac_psi))
       [] c = 1 -> FMul(frac_phi, FSub(frac_psi, One))
       [] c = 2 -> FMul(FSub(One, frac_phi), frac_psi)
       [] c = 3 -> FMul(frac_phi, frac_psi)]

\* The weights with frac_phi and frac_psi exchanged in w10 and w01.
Weights_transposed(frac_phi, frac_psi) ==
  [c \in Corner |->
     CASE c = 0 -> FMul(FSub(One, frac_phi), FSub(One, frac_psi))
       [] c = 1 -> FMul(FSub(One, frac_phi), frac_psi)
       [] c = 2 -> FMul(frac_phi, FSub(One, frac_psi))
       [] c = 3 -> FMul(frac_phi, frac_psi)]

\* The four bilinear weights w00, w10, w01, w11.
Weights(frac_phi, frac_psi) ==
  [c \in Corner |->
     CASE c = 0 -> FMul(FSub(One, frac_phi), FSub(One, frac_psi))
       [] c = 1 -> FMul(frac_phi, FSub(One, frac_psi))
       [] c = 2 -> FMul(FSub(One, frac_phi), frac_psi)
       [] c = 3 -> FMul(frac_phi, frac_psi)]

\* The corners 1 and 2 exchanged: phi and psi transposed in the lookup.
CornerIdx_transposed(lo_phi, lo_psi) ==
  [c \in Corner |->
     CASE c = 0 -> <<lo_phi, lo_psi>>
       [] c = 1 -> <<lo_phi, lo_psi + 1>>
       [] c = 2 -> <<lo_phi + 1, lo_psi>>
       [] c = 3 -> <<lo_phi + 1, lo_psi + 1>>]

\* The table indices of the four corner cells.
CornerIdx(lo_phi, lo_psi) ==
  [c \in Corner |->
     CASE c = 0 -> <<lo_phi, lo_psi>>
       [] c = 1 -> <<lo_phi + 1, lo_psi>>
       [] c = 2 -> <<lo_phi, lo_psi + 1>>
       [] c = 3 -> <<lo_phi + 1, lo_psi + 1>>]

\* An index that `table[a][b]` accepts; any other index panics.
InBounds(ix) == ix[1] \in 0..(GRID_COUNT - 1) /\ ix[2] \in 0..(GRID_COUNT - 1)

\* The locals of build_iter before the corner cells are read.
Locals(phi_, psi_) ==
  LET gphi == angle_to_grid(phi_)
      gpsi == angle_to_grid(psi_)
  IN  [lo_phi |-> gphi.lo, frac_phi |-> gphi.frac,
       lo_psi |-> gpsi.lo, frac_psi |-> gpsi.frac,
       w |-> Weights(gphi.frac, gpsi.frac)]

\* The items matched to the entry after k instead of entry k.
Interpolate_resorted(corners, w, k, N) ==
  LET m == (k + 1) % Cardinality(DOMAIN corners[0])
  IN  Rotamer(corners[0][m].r,
              bilinear(w, [c \in Corner |-> corners[c][m].prob]),
              [i \in 0..(N - 1) |-> circular_mean(w, [c \in Corner |-> corners[c][m].chi_mean[i]])],
              [i \in 0..(N - 1) |-> bilinear(w, [c \in Corner |-> corners[c][m].chi_sigma[i]])])

\* Item k of `items` before the re-normalization.
Interpolate(corners, w, k, N) ==
  Rotamer(corners[0][k].r,
          bilinear(w, [c \in Corner |-> corners[c][k].prob]),
          [i \in 0..(N - 1) |-> circular_mean(w, [c \in Corner |-> corners[c][k].chi_mean[i]])],
          [i \in 0..(N - 1) |-> bilinear(w, [c \in Corner |-> corners[c][k].chi_sigma[i]])])

\* The comparison of the bins left out.
BinsAgree_unchecked(corners, R) == TRUE

\* debug_assert_eq!(r, corners[c][k].r) for every k and c.
BinsAgree(corners, R) ==
  \A k \in 0..(R - 1) : \A c \in Corner : corners[c][k].r = corners[0][k].r

RECURSIVE SumProb(_, _)
\* items.iter().map(|rot| rot.prob).sum() over the first n items.
SumProb(its, n) == IF n = 0 THEN Zero ELSE FAdd(SumProb(its, n - 1), its[n - 1].prob)

\* debug_assert!(prob_sum.is_finite() && prob_sum > 0.0)
ProbSumOk(prob_sum) == is_finite(prob_sum) /\ FGt(prob_sum, Zero)

\* The loop run over copies of the items: no probability is rescaled.
Renormalize_on_copies(its, R) == its

\* The loop `rot.prob *= inv`.
Renormalize(its, R) ==
  LET prob_sum == SumProb(its, R)
      inv == FDiv(One, prob_sum)
  IN  [k \in 0..(R - 1) |-> [its[k] EXCEPT !.prob = FMul(its[k].prob, inv)]]

\* ------------------------------------------------- residue.rs and the tables
\* Two of the 22 residue kinds: Val (1 chi angle, 3 rotamers) and Pro (3 chi
\* angles, 2 rotamers).
Val == [NAME |-> "VAL", N_CHI |-> 1, N_ROTAMERS |-> 3]
Pro == [NAME |-> "PRO", N_CHI |-> 3, N_ROTAMERS |-> 2]
Residues == {Val, Pro}

\* Grid index 36 is the same backbone angle as grid index 0.
GridPhase(i) == i % (GRID_COUNT - 1)

\* The bins of rotamer k: the same at every grid cell, 1-based.
Bins(res, k) == [c \in 0..(res.N_CHI - 1) |-> IF c = 0 THEN k + 1 ELSE ((k + c) % 3) + 1]

\* The share of rotamer k at cell (i, j) of data variant tid, out of ShareSum.
Share(tid, i, j, k) ==
  IF k = 0 THEN 1 + ((GridPhase(i) + 2 * GridPhase(j) + tid) % 5)
  ELSE (GridPhase(i) * (k + 1) + GridPhase(j) * (k + 2) + tid * k) % 4

RECURSIVE ShareSum(_, _, _, _)
ShareSum(tid, i, j, n) == IF n = 0 THEN 0 ELSE ShareSum(tid, i, j, n - 1) + Share(tid, i, j, n - 1)

\* A stored mean angle, in (-180, 180]: the values near 180 wrap to the
\* negative side from one cell to the next.
ChiBase == <<60, 175, -65, -170>>
StoredChi(tid, i, j, k, c) ==
  LET raw == ChiBase[((k + 2 * c) % 4) + 1] * Scale
               + 5 * Scale * ((GridPhase(i) + GridPhase(j) + tid) % 3)
               + Resolution * ((GridPhase(i) + 3 * GridPhase(j)) % 10)
  IN  Fin(IF raw > 180 * Scale THEN raw - 360 * Scale ELSE raw)

StoredSigma(tid, i, j, k, c) ==
  Fin((6 + ((GridPhase(i) + 2 * GridPhase(j) + k + c + tid) % 7)) * Scale
      + Resolution * ((GridPhase(i) + GridPhase(j)) % 10))

\* The static table of a residue kind: [GRID_COUNT][GRID_COUNT][R] rotamers.
\* The probabilities of a cell of variant 1 sum to 1.0 up to their rounding;
\* those of the later variants sum to less.
Table(res, tid) ==
  [i \in 0..(GRID_COUNT - 1) |-> [j \in 0..(GRID_COUNT - 1) |->
     [k \in 0..(res.N_ROTAMERS - 1) |->
        Rotamer(Bins(res, k),
                Fin(RoundDiv(Share(tid, i, j, k) * Scale,
                             ShareSum(tid, i, j, res.N_ROTAMERS) + (tid - 1))),
                [c \in 0..(res.N_CHI - 1) |-> StoredChi(tid, i, j, k, c)],
                [c \in 0..(res.N_CHI - 1) |-> StoredSigma(tid, i, j, k, c)])]]]


\* ------------------------------------------------------------------ state
VARIABLES
  residue,           \* the residue kind queried: its N_CHI and N_ROTAMERS
  variant,           \* which data its static table was built from
  dirty,             \* the cells of the table that differ from the data of `variant`, by index pair
  debug_assertions,  \* TRUE in a build that keeps debug_assert!, FALSE in a release build
  pc,                \* per thread: "idle", "grid", "interp", "ready" or "panicked"
  phi, psi,          \* per thread: the arguments of the query in progress
  loc,               \* per thread: lo_phi, frac_phi, lo_psi, frac_psi and w of build_iter
  items, idx,        \* per thread: the fields of the RotamerIter it holds
  ret,               \* per thread: what the last call of next returned
  calls              \* per thread: calls of next made on the held iterator

vars == <<residue, variant, dirty, debug_assertions, pc, phi, psi, loc, items, idx, ret, calls>>

N == residue.N_CHI
R == residue.N_ROTAMERS

\* The residue's table as the program reads it: the data of `variant`, and in
\* the cells of `dirty` what they hold instead.
table ==
  [i \in 0..(GRID_COUNT - 1) |-> [j \in 0..(GRID_COUNT - 1) |->
     IF <<i, j>> \in DOMAIN dirty THEN dirty[<<i, j>>] ELSE Table(residue, variant)[i][j]]]

NoWrites == <<>>
NoItems == <<>>
NoLoc == [lo_phi |-> 0, frac_phi |-> Zero, lo_psi |-> 0, frac_psi |-> Zero,
          w |-> [c \in Corner |-> Zero]]
NoCall == [tag |-> "NoCall"]
None == [tag |-> "None"]
Some(item) == [tag |-> "Some", item |-> item]

\* The query angles: outside the grid, on its two ends, on and between grid
\* points, and the three non-finite f32 values.
Angles == {Deg(-200), Deg(-180), Deg(-175), Deg(-60), Deg(0), Deg(64), Deg(179),
           Deg(180), Deg(200), NaN, PInf, NInf}
\* The angles of the threads that query concurrently.
ConcPhi == {Deg(-175), Deg(180), NaN}
ConcPsi == {Deg(64)}

\* The four corner cells of build_iter, given in-bounds indices.
Corners(tab, l) ==
  [c \in Corner |-> tab[CornerIdx(l.lo_phi, l.lo_psi)[c][1]][CornerIdx(l.lo_phi, l.lo_psi)[c][2]]]

\* Indexing the table panics out of bounds.
IndexPanics(l) == \E c \in Corner : ~InBounds(CornerIdx(l.lo_phi, l.lo_psi)[c])

\* `items` as core::array::from_fn leaves it, given the four corner cells.
FromFn(cs, w, res) ==
  [k \in 0..(res.N_ROTAMERS - 1) |-> Interpolate(cs, w, k, res.N_CHI)]

RawItems(tab, l, res) == FromFn(Corners(tab, l), l.w, res)

Panicked(l) == [panic |-> TRUE, loc |-> l, items |-> NoItems]

\* build_iter from the re-normalization on, given `items` as from_fn left it.
build_iter_renormalize(raw, res, l, debug) ==
  IF debug /\ ~ProbSumOk(SumProb(raw, res.N_ROTAMERS)) THEN Panicked(l)
  ELSE [panic |-> FALSE, loc |-> l, items |-> Renormalize(raw, res.N_ROTAMERS)]

\* build_iter from from_fn on, given the four corner cells.
build_iter_from_fn(cs, res, l, debug) ==
  IF debug /\ ~BinsAgree(cs, res.N_ROTAMERS) THEN Panicked(l)
  ELSE CHOOSE b \in {build_iter_renormalize(raw, res, l, debug) :
                       raw \in {FromFn(cs, l.w, res)}} : TRUE

\* build_iter from the reads of the corner cells on, given its first locals.
build_iter_corners(tab, res, l, debug) ==
  IF IndexPanics(l) THEN Panicked(l)
  ELSE CHOOSE b \in {build_iter_from_fn(cs, res, l, debug) : cs \in {Corners(tab, l)}} : TRUE

\* build_iter as a whole: whether it panics, and the locals and items it ends
\* with.  Each `let` of the code is computed once, before what follows it.
build_iter(tab, res, phi_, psi_, debug) ==
  CHOOSE b \in {build_iter_corners(tab, res, l, debug) : l \in {Locals(phi_, psi_)}} : TRUE

Init ==
  /\ residue \in Residues
  /\ variant \in 1..NumTables
  /\ dirty = NoWrites
  /\ debug_assertions \in BOOLEAN
  /\ pc = [t \in Threads |-> "idle"]
  /\ phi = [t \in Threads |-> Zero]
  /\ psi = [t \in Threads |-> Zero]
  /\ loc = [t \in Threads |-> NoLoc]
  /\ items = [t \in Threads |-> NoItems]
  /\ idx = [t \in Threads |-> 0]
  /\ ret = [t \in Threads |-> NoCall]
  /\ calls = [t \in Threads |-> 0]

\* Residue::rotamers(phi, psi): the whole of build_iter on the residue's table.
rotamers(t, phi_, psi_) ==
  /\ pc[t] = "idle"
  /\ \E b \in {build_iter(table, residue, phi_, psi_, debug_assertions)} :
         /\ pc' = [pc EXCEPT ![t] = IF b.panic THEN "panicked" ELSE "ready"]
         /\ loc' = [loc EXCEPT ![t] = b.loc]
         /\ items' = [items EXCEPT ![t] = b.items]
  /\ phi' = [phi EXCEPT ![t] = phi_]
  /\ psi' = [psi EXCEPT ![t] = psi_]
  /\ idx' = [idx EXCEPT ![t] = 0]
  /\ ret' = [ret EXCEPT ![t] = NoCall]
  /\ calls' = [calls EXCEPT ![t] = 0]
  /\ UNCHANGED <<residue, variant, dirty, debug_assertions>>

\* next that moves the item out of its slot (core::mem::take) as it yields it.
next_take(t) ==
  /\ pc[t] = "ready"
  /\ calls[t] < MaxCalls
  /\ IF idx[t] < R
     THEN /\ ret' = [ret EXCEPT ![t] = Some(items[t][idx[t]])]
          /\ idx' = [idx EXCEPT ![t] = idx[t] + 1]
          /\ items' = [items EXCEPT ![t][idx[t]] =
                         Rotamer([c \in 0..(N - 1) |-> 0], Zero,
                                 [c \in 0..(N - 1) |-> Zero], [c \in 0..(N - 1) |-> Zero])]
     ELSE /\ ret' = [ret EXCEPT ![t] = None]
          /\ idx' = idx
          /\ items' = items
  /\ calls' = [calls EXCEPT ![t] = calls[t] + 1]
  /\ UNCHANGED <<residue, variant, dirty, debug_assertions, pc, phi, psi, loc>>

\* next that rewinds the cursor when it reports the end.
next_rewind(t) ==
  /\ pc[t] = "ready"
  /\ calls[t] < MaxCalls
  /\ IF idx[t] < R
     THEN /\ ret' = [ret EXCEPT ![t] = Some(items[t][idx[t]])]
          /\ idx' = [idx EXCEPT ![t] = idx[t] + 1]
     ELSE /\ ret' = [ret EXCEPT ![t] = None]
          /\ idx' = [idx EXCEPT ![t] = 0]
  /\ calls' = [calls EXCEPT ![t] = calls[t] + 1]
  /\ UNCHANGED <<residue, variant, dirty, debug_assertions, pc, phi, psi, loc, items>>

\* next with the bound `idx < R - 1`: the last item is never yielded.
next_short(t) ==
  /\ pc[t] = "ready"
  /\ calls[t] < MaxCalls
  /\ IF idx[t] < R - 1
     THEN /\ ret' = [ret EXCEPT ![t] = Some(items[t][idx[t]])]
          /\ idx' = [idx EXCEPT ![t] = idx[t] + 1]
     ELSE /\ ret' = [ret EXCEPT ![t] = None]
          /\ idx' = idx
  /\ calls' = [calls EXCEPT ![t] = calls[t] + 1]
  /\ UNCHANGED <<residue, variant, dirty, debug_assertions, pc, phi, psi, loc, items>>

\* next that moves the cursor on every call, at the end as well.
next_past_end(t) ==
  /\ pc[t] = "ready"
  /\ calls[t] < MaxCalls
  /\ ret' = [ret EXCEPT ![t] = IF idx[t] < R THEN Some(items[t][idx[t]]) ELSE None]
  /\ idx' = [idx EXCEPT ![t] = idx[t] + 1]
  /\ calls' = [calls EXCEPT ![t] = calls[t] + 1]
  /\ UNCHANGED <<residue, variant, dirty, debug_assertions, pc, phi, psi, loc, items>>

\* RotamerIter::next
next(t) ==
  /\ pc[t] = "ready"
  /\ calls[t] < MaxCalls
  /\ IF idx[t] < R
     THEN /\ ret' = [ret EXCEPT ![t] = Some(items[t][idx[t]])]
          /\ idx' = [idx EXCEPT ![t] = idx[t] + 1]
     ELSE /\ ret' = [ret EXCEPT ![t] = None]
          /\ idx' = idx
  /\ calls' = [calls EXCEPT ![t] = calls[t] + 1]
  /\ UNCHANGED <<residue, variant, dirty, debug_assertions, pc, phi, psi, loc, items>>

\* The caller lets go of the iterator it holds.
Drop(t) ==
  /\ pc[t] = "ready"
  /\ pc' = [pc EXCEPT ![t] = "idle"]
  /\ phi' = [phi EXCEPT ![t] = Zero]
  /\ psi' = [psi EXCEPT ![t] = Zero]
  /\ loc' = [loc EXCEPT ![t] = NoLoc]
  /\ items' = [items EXCEPT ![t] = NoItems]
  /\ idx' = [idx EXCEPT ![t] = 0]
  /\ ret' = [ret EXCEPT ![t] = NoCall]
  /\ calls' = [calls EXCEPT ![t] = 0]
  /\ UNCHANGED <<residue, variant, dirty, debug_assertions>>

\* `a - b` on usize: the difference, or on underflow the wrapped value that
\* a build without overflow checks computes; a build with them panics.
usize_sub(a, b) ==
  [overflow |-> a < b, v |-> IF a >= b THEN a - b ELSE usize_MAX - (b - a) + 1]

\* RotamerIter::len
len(t) ==
  LET remaining == usize_sub(R, idx[t])
  IN  [panic |-> remaining.overflow /\ debug_assertions, v |-> remaining.v]

\* RotamerIter::size_hint
size_hint(t) ==
  LET remaining == usize_sub(R, idx[t])
  IN  [panic |-> remaining.overflow /\ debug_assertions,
       v |-> <<remaining.v, Some(remaining.v)>>]

\* One caller: queries, iterates and drops, one call at a time.
Next ==
  \/ \E phi_ \in Angles, psi_ \in Angles : rotamers(1, phi_, psi_)
  \/ next(1)
  \/ Drop(1)

Spec == Init /\ [][Next]_vars

\* ------------------------------------------------ concurrent queries
\* build_iter in the three steps another thread can interleave with: the grid
\* index and the weights, the reads of the four corner cells, and the
\* re-normalization that ends with the return of the iterator.
enter_build_iter(t, phi_, psi_) ==
  /\ pc[t] = "idle"
  /\ pc' = [pc EXCEPT ![t] = "grid"]
  /\ phi' = [phi EXCEPT ![t] = phi_]
  /\ psi' = [psi EXCEPT ![t] = psi_]
  /\ loc' = [loc EXCEPT ![t] = Locals(phi_, psi_)]
  /\ UNCHANGED <<residue, variant, dirty, debug_assertions, items, idx, ret, calls>>

\* from_fn that stores what it interpolated in the cell (lo_phi, lo_psi), as a cache.
from_fn_memo(t) ==
  /\ pc[t] = "grid"
  /\ IF \/ IndexPanics(loc[t])
        \/ debug_assertions /\ ~BinsAgree(Corners(table, loc[t]), R)
     THEN /\ pc' = [pc EXCEPT ![t] = "panicked"]
          /\ items' = items
          /\ dirty' = dirty
     ELSE /\ pc' = [pc EXCEPT ![t] = "interp"]
          /\ \E raw \in {RawItems(table, loc[t], residue)} :
               /\ items' = [items EXCEPT ![t] = raw]
               /\ dirty' = (<<loc[t].lo_phi, loc[t].lo_psi>> :> raw) @@ dirty
  /\ UNCHANGED <<residue, variant, debug_assertions, phi, psi, loc, idx, ret, calls>>

\* The corner cells are read, the bins compared and the R items interpolated.
from_fn(t) ==
  /\ pc[t] = "grid"
  /\ IF \/ IndexPanics(loc[t])
        \/ debug_assertions /\ ~BinsAgree(Corners(table, loc[t]), R)
     THEN /\ pc' = [pc EXCEPT ![t] = "panicked"]
          /\ items' = items
     ELSE /\ pc' = [pc EXCEPT ![t] = "interp"]
          /\ items' = [items EXCEPT ![t] = RawItems(table, loc[t], residue)]
  /\ UNCHANGED <<residue, variant, dirty, debug_assertions, phi, psi, loc, idx, ret, calls>>

\* The re-normalization done on the cell (lo_phi, lo_psi) of the table as well.
renormalize_in_place(t) ==
  /\ pc[t] = "interp"
  /\ IF debug_assertions /\ ~ProbSumOk(SumProb(items[t], R))
     THEN /\ pc' = [pc EXCEPT ![t] = "panicked"]
          /\ items' = [items EXCEPT ![t] = NoItems]
          /\ dirty' = dirty
     ELSE /\ pc' = [pc EXCEPT ![t] = "ready"]
          /\ items' = [items EXCEPT ![t] = Renormalize(items[t], R)]
          /\ dirty' = (<<loc[t].lo_phi, loc[t].lo_psi>> :>
                         Renormalize(table[loc[t].lo_phi][loc[t].lo_psi], R)) @@ dirty
  /\ idx' = [idx EXCEPT ![t] = 0]
  /\ UNCHANGED <<residue, variant, debug_assertions, phi, psi, loc, ret, calls>>

\* The probabilities are summed, asserted and rescaled, and the iterator returned.
renormalize(t) ==
  /\ pc[t] = "interp"
  /\ IF debug_assertions /\ ~ProbSumOk(SumProb(items[t], R))
     THEN /\ pc' = [pc EXCEPT ![t] = "panicked"]
          /\ items' = [items EXCEPT ![t] = NoItems]
     ELSE /\ pc' = [pc EXCEPT ![t] = "ready"]
          /\ items' = [items EXCEPT ![t] = Renormalize(items[t], R)]
  /\ idx' = [idx EXCEPT ![t] = 0]
  /\ UNCHANGED <<residue, variant, dirty, debug_assertions, phi, psi, loc, ret, calls>>

NextConc ==
  \E t \in Threads :
    \/ \E phi_ \in ConcPhi, psi_ \in ConcPsi : enter_build_iter(t, phi_, psi_)
    \/ from_fn(t)
    \/ renormalize(t)
    \/ Drop(t)

SpecConc == Init /\ [][NextConc]_vars

\* --------------------------------------------- tables with other mean angles
\* Mean angles of (-180, 180]: the end 180, its neighbour across the
\* discontinuity, and angles up to half a turn apart.
StoredAngles == {Deg(180), Deg(-179), Deg(45), Deg(-135), Deg(60), Deg(120)}

\* The cell (i, j) of the data of `tid` with every chi_mean set to `angle`.
CellWithAngle(res, tid, i, j, angle) ==
  [k \in 0..(res.N_ROTAMERS - 1) |->
     [Table(res, tid)[i][j][k] EXCEPT !.chi_mean = [c \in 0..(res.N_CHI - 1) |-> angle]]]

\* The four cells around (-180..-170, -180..-170) with the mean angle a at phi
\* index 0 and b at phi index 1.
WithAngles(res, tid, a, b) ==
  [ix \in {<<0, 0>>, <<1, 0>>, <<0, 1>>, <<1, 1>>} |->
     CellWithAngle(res, tid, ix[1], ix[2], IF ix[1] = 0 THEN a ELSE b)]

InitAngles ==
  /\ residue \in Residues
  /\ variant \in 1..NumTables
  /\ dirty \in {WithAngles(residue, variant, a, b) : a \in StoredAngles, b \in StoredAngles}
  /\ debug_assertions \in BOOLEAN
  /\ pc = [t \in Threads |-> "idle"]
  /\ phi = [t \in Threads |-> Zero]
  /\ psi = [t \in Threads |-> Zero]
  /\ loc = [t \in Threads |-> NoLoc]
  /\ items = [t \in Threads |-> NoItems]
  /\ idx = [t \in Threads |-> 0]
  /\ ret = [t \in Threads |-> NoCall]
  /\ calls = [t \in Threads |-> 0]

\* Queries in and on the edge of the four cells: on the grid point, midway to
\* the next one, and three tenths of the way.
NearPhi == {Deg(-180), Deg(-175), Deg(-177)}
NearPsi == {Deg(-180), Deg(-175)}

NextAngles ==
  \/ \E phi_ \in NearPhi, psi_ \in NearPsi : rotamers(1, phi_, psi_)
  \/ next(1)
  \/ Drop(1)

SpecAngles == InitAngles /\ [][NextAngles]_vars

\* ------------------------------------------ tables a broken generator built
\* What is wrong with the data: bins in another order from one cell to the
\* next, or probabilities that are all zero, all negative, or not finite.
FaultKinds == {"bins", "zero", "negative", "nonfinite"}

FaultyCell(res, tid, i, j, kind) ==
  [k \in 0..(res.N_ROTAMERS - 1) |->
     LET rot == Table(res, tid)[i][j][k]
     IN  CASE kind = "bins" ->
                [rot EXCEPT !.r = IF <<i, j>> = <<0, 0>> THEN rot.r
                                  ELSE Bins(res, (k + 1) % res.N_ROTAMERS)]
           [] kind = "zero" -> [rot EXCEPT !.prob = Zero]
           [] kind = "negative" -> [rot EXCEPT !.prob = FNeg(rot.prob)]
           [] kind = "nonfinite" -> [rot EXCEPT !.prob = IF k = 0 THEN PInf ELSE rot.prob]]

\* The four cells around (-180..-170, -180..-170) with the fault `kind`.
Faulty(res, tid, kind) ==
  [ix \in {<<0, 0>>, <<1, 0>>, <<0, 1>>, <<1, 1>>} |-> FaultyCell(res, tid, ix[1], ix[2], kind)]

InitCorrupt ==
  /\ residue \in Residues
  /\ variant \in 1..NumTables
  /\ dirty \in {Faulty(residue, variant, kind) : kind \in FaultKinds}
  /\ debug_assertions \in BOOLEAN
  /\ pc = [t \in Threads |-> "idle"]
  /\ phi = [t \in Threads |-> Zero]
  /\ psi = [t \in Threads |-> Zero]
  /\ loc = [t \in Threads |-> NoLoc]
  /\ items = [t \in Threads |-> NoItems]
  /\ idx = [t \in Threads |-> 0]
  /\ ret = [t \in Threads |-> NoCall]
  /\ calls = [t \in Threads |-> 0]

SpecCorrupt == InitCorrupt /\ [][NextAngles]_vars

\* ------------------------------------------- two queries at the grid's ends
\* The angles that land on an end of the grid: the two ends and what is
\* saturated to them.
Ends == {Deg(-200), Deg(-180), Deg(180), Deg(200), NInf, PInf}

\* An end on one axis with an angle between grid points on the other, and the
\* four corners of the grid.
EndQueries ==
  {<<e, Deg(64)>> : e \in Ends} \cup {<<Deg(64), e>> : e \in Ends}
  \cup ({Deg(-180), Deg(180)} \X {Deg(-180), Deg(180)})

\* The cells at the last phi index holding the data of phi index 1 instead of
\* that of phi index 0: a table that is not periodic along phi.
SeamCut(res, tid) ==
  [ix \in {<<GRID_COUNT - 1, j>> : j \in 0..(GRID_COUNT - 1)} |-> Table(res, tid)[1][ix[2]]]

\* The two callers whose results are compared.
Pair == {1, 2}

InitEnds ==
  /\ residue \in Residues
  /\ variant \in 1..NumTables
  /\ dirty \in {NoWrites, SeamCut(residue, variant)}
  /\ debug_assertions \in BOOLEAN
  /\ pc = [t \in Threads |-> "idle"]
  /\ phi = [t \in Threads |-> Zero]
  /\ psi = [t \in Threads |-> Zero]
  /\ loc = [t \in Threads |-> NoLoc]
  /\ items = [t \in Threads |-> NoItems]
  /\ idx = [t \in Threads |-> 0]
  /\ ret = [t \in Threads |-> NoCall]
  /\ calls = [t \in Threads |-> 0]

\* Each of the two callers queries and drops what it holds.
NextEnds ==
  \/ \E t \in Pair : \E q \in EndQueries : rotamers(t, q[1], q[2])
  \/ \E t \in Pair : Drop(t)

SpecEnds == InitEnds /\ [][NextEnds]_vars

\* ------------------------------------------------------------------ claims
\* The sum a caller takes over the probabilities of the items it collected.
ProbSum(t) == SumProb(items[t], R)
\* |x - 1.0| < 1e-4
WithinTolerance(x) == IsFin(x) /\ Abs(x.v - Scale) * 10000 < Scale
\* 0.0 <= x <= 1.0
InUnit(x) == IsFin(x) /\ 0 <= x.v /\ x.v <= Scale

\* C1: whatever the two angles, inside or outside [-180, 180], an iterator
\* that rotamers returned holds R items, its first R calls of next return
\* Some(items[0]), ..., Some(items[R-1]) in this order, and every later call
\* returns None.
C1_YieldsExactlyR ==
  \A t \in Threads : pc[t] = "ready" =>
    /\ DOMAIN items[t] = 0..(R - 1)
    /\ calls[t] = 0 => ret[t] = NoCall /\ idx[t] = 0
    /\ calls[t] \in 1..R => ret[t] = Some(items[t][calls[t] - 1]) /\ idx[t] = calls[t]
    /\ calls[t] > R => ret[t] = None /\ idx[t] = R

\* An iterator queried outside the grid has yielded its R items and then None.
C1_Witness ==
  \E t \in Threads : /\ pc[t] = "ready"
                     /\ phi[t] = Deg(200) /\ psi[t] = Deg(-175)
                     /\ calls[t] = R + 1 /\ ret[t] = None

\* The probabilities of the four corner cells of the query are in [0, 1] and
\* their interpolated sum is strictly positive.
CornersWellFormed(t) ==
  /\ ~IndexPanics(loc[t])
  /\ \A c \in Corner : \A k \in 0..(R - 1) : InUnit(Corners(table, loc[t])[c][k].prob)
  /\ FGt(SumProb(RawItems(table, loc[t], residue), R), Zero)

\* C2: for finite phi and psi and corner probabilities in [0, 1] with a
\* strictly positive interpolated sum, every returned probability is in
\* [0, 1] and the R probabilities sum to 1.0 within 1e-4.
C2_Distribution ==
  \A t \in Threads :
    (pc[t] = "ready" /\ IsFin(phi[t]) /\ IsFin(psi[t]) /\ CornersWellFormed(t)) =>
      /\ \A k \in 0..(R - 1) : InUnit(items[t][k].prob)
      /\ WithinTolerance(ProbSum(t))

\* A query between grid points whose four corner cells sum to less than 1.0
\* has returned a distribution.
C2_Witness ==
  \E t \in Threads : /\ pc[t] = "ready"
                     /\ phi[t] = Deg(-175) /\ psi[t] = Deg(64)
                     /\ CornersWellFormed(t)
                     /\ ~WithinTolerance(SumProb(RawItems(table, loc[t], residue), R))
                     /\ WithinTolerance(ProbSum(t))

\* The corner indices and fractions of a query that has run, per angle.
GridOf(t) == {<<phi[t], loc[t].lo_phi, loc[t].frac_phi>>, <<psi[t], loc[t].lo_psi, loc[t].frac_psi>>}

\* C3: for any numeric input, NaN and the two infinities included, rotamers
\* completes without a panic or a failed assertion, treats the angle as clamped
\* into [-180, 180], and returns R rotamers whose probabilities sum to 1.0.
C3_NeverFails ==
  \A t \in Threads :
    (pc[t] \in {"ready", "panicked"} /\ (~IsFin(phi[t]) \/ ~IsFin(psi[t]))) =>
      /\ pc[t] = "ready"
      /\ \A g \in GridOf(t) : InUnit(g[3])
      /\ DOMAIN items[t] = 0..(R - 1)
      /\ WithinTolerance(ProbSum(t))

\* C4: for every input angle, angle_to_grid returns lo in [0, 35] and frac in
\* [0.0, 1.0], so the four corner indices of every build_iter call are in 0..36.
C4_GridIndexInRange ==
  \A t \in Threads : pc[t] # "idle" =>
    /\ \A g \in GridOf(t) : g[2] \in 0..35 /\ InUnit(g[3])
    /\ \A c \in Corner : InBounds(CornerIdx(loc[t].lo_phi, loc[t].lo_psi)[c])

\* C5: for every angle that is a number, with c the angle clamped to
\* [-180, 180] and shifted = (c + 180) / 10, angle_to_grid returns
\* lo = min(floor(shifted), 35) and frac = shifted - lo, so that
\* -180 + 10 * (lo + frac) = c; below -180 it returns (0, 0.0), above 180 it
\* returns (35, 1.0), and frac = 1.0 only when c = 180.
C5_GridFormula ==
  \A t \in Threads : pc[t] # "idle" =>
    \A g \in GridOf(t) : ~IsNaN(g[1]) =>
      LET c == IF IsInf(g[1]) THEN g[1].v * 180 * Scale
               ELSE MaxI(-180 * Scale, MinI(180 * Scale, g[1].v))
          lo == MinI((c + 180 * Scale) \div (10 * Scale), 35)
      IN  /\ g[2] = lo
          /\ IsFin(g[3])
          /\ 10 * g[3].v = c + 180 * Scale - lo * 10 * Scale
          /\ FLt(g[1], Deg(-180)) => g[2] = 0 /\ g[3] = Zero
          /\ FGt(g[1], Deg(180)) => g[2] = 35 /\ g[3] = One
          /\ g[3] = One => c = 180 * Scale

\* A query above 180 in phi and below -180 in psi has got (35, 1.0) and (0, 0.0).
C5_Witness ==
  \E t \in Threads : /\ pc[t] = "ready"
                     /\ phi[t] = Deg(200) /\ psi[t] = Deg(-200)
                     /\ loc[t].lo_phi = 35 /\ loc[t].frac_phi = One
                     /\ loc[t].lo_psi = 0 /\ loc[t].frac_psi = Zero

\* -180 + 10 * i for an i of 0..36, and that i.
IsGridCoord(x) ==
  /\ IsFin(x)
  /\ -180 * Scale <= x.v /\ x.v <= 180 * Scale
  /\ (x.v + 180 * Scale) % (10 * Scale) = 0
GridIndexOf(x) == (x.v + 180 * Scale) \div (10 * Scale)
\* Two angles in degrees less than 0.05 apart modulo 360.
SameAngle(x, y) ==
  /\ IsFin(x) /\ IsFin(y)
  /\ LET d == (x.v - y.v) % (360 * Scale)
     IN  20 * d < Scale \/ 20 * (360 * Scale - d) < Scale

\* C6: when phi and psi are the grid coordinates -180 + 10*i and -180 + 10*j,
\* the +180 ends included, the k-th returned rotamer has the bins and the
\* chi_sigma of table[i][j][k], its chi_mean modulo 360, and its probability
\* divided by the sum of the cell's probabilities.
C6_GridIdentity ==
  \A t \in Threads :
    (pc[t] = "ready" /\ IsGridCoord(phi[t]) /\ IsGridCoord(psi[t])) =>
      LET cell == table[GridIndexOf(phi[t])][GridIndexOf(psi[t])]
          cell_sum == SumProb(cell, R)
      IN  \A k \in 0..(R - 1) :
            /\ items[t][k].r = cell[k].r
            /\ items[t][k].chi_sigma = cell[k].chi_sigma
            /\ \A i \in 0..(N - 1) : SameAngle(items[t][k].chi_mean[i], cell[k].chi_mean[i])
            /\ IsFin(items[t][k].prob)
            /\ Abs(items[t][k].prob.v - RoundDiv(cell[k].prob.v * Scale, cell_sum.v)) <= 2

\* A query at the grid point (180, -60) of a table whose cells do not sum to
\* 1.0 has returned: the stored probability was rescaled.
C6_Witness ==
  \E t \in Threads : /\ pc[t] = "ready"
                     /\ phi[t] = Deg(180) /\ psi[t] = Deg(-60)
                     /\ items[t][0].prob # table[36][12][0].prob
                     /\ items[t][0].chi_sigma = table[36][12][0].chi_sigma

C8_TableReadOnly ==
  /\ [][dirty' = dirty]_vars
  /\ [](\A t \in Threads :
          /\ pc[t] = "ready" =>
               \E b \in {build_iter(Table(residue, variant), residue, phi[t], psi[t],
                                    debug_assertions)} : ~b.panic /\ items[t] = b.items
          /\ pc[t] = "panicked" =>
               build_iter(Table(residue, variant), residue, phi[t], psi[t],
                          debug_assertions).panic)

\* One thread has returned while another, with another phi, is between its
\* reads of the table and its re-normalization.
C8_Witness ==
  \E t1 \in Threads : \E t2 \in Threads :
    /\ pc[t1] = "ready" /\ pc[t2] = "interp"
    /\ phi[t1] # phi[t2]
    /\ dirty = NoWrites

\* C9: the R items, re-normalized, are in the iterator when build_iter
\* returns; no call of next changes an item, and what next yields at position
\* k is the item build_iter computed for k, however many were consumed before.
C9_EagerItems ==
  /\ [][\A t \in Threads : (pc[t] = "ready" /\ pc'[t] = "ready") => items'[t] = items[t]]_vars
  /\ [](\A t \in Threads : pc[t] = "ready" =>
          \E b \in {build_iter(table, residue, phi[t], psi[t], debug_assertions)} :
            /\ items[t] = b.items
            /\ ret[t] # NoCall /\ ret[t] # None =>
                 /\ (calls[t] - 1) \in DOMAIN b.items
                 /\ ret[t].item = b.items[calls[t] - 1])

\* All R items of a query between grid points have been consumed.
C9_Witness ==
  \E t \in Threads : /\ pc[t] = "ready"
                     /\ phi[t] = Deg(64) /\ psi[t] = Deg(179)
                     /\ calls[t] = R /\ idx[t] = R
                     /\ ret[t] = Some(items[t][R - 1])

\* C10 as stated: after some or all of its items have been consumed, iteration
\* over the same returned value can be started again from the first rotamer.
C10_Restartable ==
  \A t \in Threads : (pc[t] = "ready" /\ idx[t] > 0) =>
    ENABLED (Next /\ pc'[t] = "ready" /\ items'[t] = items[t] /\ idx'[t] = 0)

\* C10: the returned sequence is single-pass: on one returned value the
\* cursor never moves back, and once next has returned None it returns None on
\* every later call.
C10_SinglePass ==
  [][\A t \in Threads : (pc[t] = "ready" /\ pc'[t] = "ready") =>
       /\ idx'[t] >= idx[t]
       /\ ret[t] = None => ret'[t] = None /\ idx'[t] = idx[t]]_vars

\* next has returned None more than once on a consumed iterator.
C10_Witness ==
  \E t \in Threads : /\ pc[t] = "ready"
                     /\ idx[t] = R
                     /\ calls[t] >= R + 2
                     /\ ret[t] = None

\* A query angle in [-200, 200].
InFuzzRange(x) == IsFin(x) /\ Abs(x.v) <= 200 * Scale

\* C11: for phi and psi in [-200, 200] and corner cells whose chi_sigma are
\* all > 0, every returned chi_sigma[i] is > 0, is the sum of the four corner
\* sigmas each multiplied by its weight, and lies between the smallest and the
\* largest of the four, up to one part in 10^4 for the rounding of the sum.
C11_SigmaBilinear ==
  \A t \in Threads :
    (pc[t] = "ready" /\ InFuzzRange(phi[t]) /\ InFuzzRange(psi[t])) =>
      \E cs \in {Corners(table, loc[t])} :
        \A k \in 0..(R - 1) : \A i \in 0..(N - 1) :
          LET sig == [c \in Corner |-> cs[c][k].chi_sigma[i]]
              out == items[t][k].chi_sigma[i]
              lo == CHOOSE m \in {sig[c].v : c \in Corner} : \A c \in Corner : m <= sig[c].v
              hi == CHOOSE m \in {sig[c].v : c \in Corner} : \A c \in Corner : m >= sig[c].v
          IN  (\A c \in Corner : IsFin(sig[c]) /\ sig[c].v > 0) =>
                /\ IsFin(out) /\ out.v > 0
                /\ out.v = MulFix(loc[t].w[0].v, sig[0].v) + MulFix(loc[t].w[1].v, sig[1].v)
                           + MulFix(loc[t].w[2].v, sig[2].v) + MulFix(loc[t].w[3].v, sig[3].v)
                /\ lo - (hi \div 10000 + 4) <= out.v
                /\ out.v <= hi + (hi \div 10000 + 4)

\* A query between grid points has returned a chi_sigma strictly between the
\* smallest and the largest of the four corner values.
C11_Witness ==
  \E t \in Threads :
    /\ pc[t] = "ready"
    /\ phi[t] = Deg(-175) /\ psi[t] = Deg(64)
    /\ \E c1 \in Corner : \E c2 \in Corner :
         /\ FLt(Corners(table, loc[t])[c1][0].chi_sigma[0], items[t][0].chi_sigma[0])
         /\ FLt(items[t][0].chi_sigma[0], Corners(table, loc[t])[c2][0].chi_sigma[0])

\* One stored mean above 170 and the other below -170.
Crosses(a, b) ==
  \/ FGt(a, Deg(170)) /\ FLt(b, Deg(-170))
  \/ FLt(a, Deg(-170)) /\ FGt(b, Deg(170))

\* The pairs of adjacent grid cells a query lies midway between: the other
\* angle is a grid coordinate, so that no other cell carries weight.
MidwayCells(t) ==
  LET l == loc[t]
      half == Fin(Scale \div 2)
      on(lo, frac) == IF frac = One THEN lo + 1 ELSE lo
  IN  (IF l.frac_phi = half /\ l.frac_psi \in {Zero, One}
       THEN {<<table[l.lo_phi][on(l.lo_psi, l.frac_psi)],
               table[l.lo_phi + 1][on(l.lo_psi, l.frac_psi)]>>}
       ELSE {})
      \cup
      (IF l.frac_psi = half /\ l.frac_phi \in {Zero, One}
       THEN {<<table[on(l.lo_phi, l.frac_phi)][l.lo_psi],
               table[on(l.lo_phi, l.frac_phi)][l.lo_psi + 1]>>}
       ELSE {})

\* C12: when the chi_mean of rotamer k at two adjacent grid cells lies on
\* opposite sides of the +/-180 discontinuity (one above 170, the other below
\* -170), the chi_mean returned midway between the two cells has a magnitude
\* above 90 degrees.
C12_ShortArc ==
  \A t \in Threads : pc[t] = "ready" =>
    \A ab \in MidwayCells(t) :
      \A k \in 0..(R - 1) : \A i \in 0..(N - 1) :
        Crosses(ab[1][k].chi_mean[i], ab[2][k].chi_mean[i]) =>
          /\ IsFin(items[t][k].chi_mean[i])
          /\ Abs(items[t][k].chi_mean[i].v) > 90 * Scale

\* A query midway between two cells whose stored means straddle +/-180 has
\* returned a mean beyond 170 degrees in magnitude.
C12_Witness ==
  \E t \in Threads :
    /\ pc[t] = "ready"
    /\ \E ab \in MidwayCells(t) : \E k \in 0..(R - 1) : \E i \in 0..(N - 1) :
         /\ Crosses(ab[1][k].chi_mean[i], ab[2][k].chi_mean[i])
         /\ Abs(items[t][k].chi_mean[i].v) > 170 * Scale

\* A value of the half-open range (-180, 180] degrees.
InMeanRange(x) == IsFin(x) /\ -180 * Scale < x.v /\ x.v <= 180 * Scale

\* C13: every chi_mean value returned by a query lies in (-180, 180]:
\* circular_mean returns neither -180 nor anything outside that range,
\* whatever the weights of the query.
C13_MeanRange ==
  \A t \in Threads : pc[t] = "ready" =>
    \A k \in 0..(R - 1) : \A i \in 0..(N - 1) : InMeanRange(items[t][k].chi_mean[i])

\* C14 as stated: a data-integrity violation in the table (bins that differ
\* between the four corner cells, or an interpolated probability sum that is
\* zero, negative or not finite) never surfaces at query time: no call of
\* rotamers aborts.
C14_NoQueryTimeFault ==
  \A t \in Threads : pc[t] # "panicked"

\* The bins of some entry differ between the corner cells of the query, or the
\* interpolated probabilities do not sum to a finite value above zero.
IntegrityViolated(t) ==
  \E cs \in {Corners(table, loc[t])} :
    \/ \E k \in 0..(R - 1) : \E c \in Corner : cs[c][k].r # cs[0][k].r
    \/ \E sum \in {SumProb(FromFn(cs, loc[t].w, residue), R)} : ~IsFin(sum) \/ sum.v <= 0

\* C14: a data-integrity violation in the corner cells of a query surfaces at
\* query time in a build with debug assertions, where the call of rotamers
\* panics; in a build without them the call does not abort and returns R
\* items carrying the bins of cell (lo_phi, lo_psi).
C14_FaultAtQueryTime ==
  \A t \in Threads : pc[t] \in {"ready", "panicked"} =>
    /\ pc[t] = "panicked" <=> (debug_assertions /\ IntegrityViolated(t))
    /\ pc[t] = "ready" =>
         /\ DOMAIN items[t] = 0..(R - 1)
         /\ \A k \in 0..(R - 1) : items[t][k].r = table[loc[t].lo_phi][loc[t].lo_psi][k].r

\* A query over cells whose bins disagree has panicked in the debug build.
C14_Witness ==
  \E t \in Threads :
    /\ pc[t] = "panicked" /\ debug_assertions
    /\ phi[t] = Deg(-175)
    /\ \E k \in 0..(R - 1) :
         Corners(table, loc[t])[1][k].r # Corners(table, loc[t])[0][k].r

\* The sum w00 + w10 + w01 + w11, added in that order.
WeightSum(w) == FAdd(FAdd(FAdd(w[0], w[1]), w[2]), w[3])

\* C15: for every query the four bilinear weights are each in [0, 1] and sum
\* to 1.0; they are (1, 0, 0, 0) when both fractions are 0 and (0, 0, 0, 1)
\* when both fractions are 1.
C15_Weights ==
  \A t \in Threads : pc[t] \in {"ready", "panicked"} =>
    \E w \in {loc[t].w} :
      /\ \A c \in Corner : InUnit(w[c])
      /\ WithinTolerance(WeightSum(w))
      /\ (loc[t].frac_phi = Zero /\ loc[t].frac_psi = Zero) => w = [c \in Corner |-> IF c = 0 THEN One ELSE Zero]
      /\ (loc[t].frac_phi = One /\ loc[t].frac_psi = One) => w = [c \in Corner |-> IF c = 3 THEN One ELSE Zero]

\* The probability stored for rotamer k in the cell at phi index i, psi index j.
P(i, j, k) == table[i][j][k].prob.v

\* w00*P[lo_phi][lo_psi][k] + w10*P[lo_phi+1][lo_psi][k]
\*   + w01*P[lo_phi][lo_psi+1][k] + w11*P[lo_phi+1][lo_psi+1][k],
\* the weights written out from the two fractions.
RawProb(t, k) ==
  LET f == loc[t].frac_phi.v
      g == loc[t].frac_psi.v
      i == loc[t].lo_phi
      j == loc[t].lo_psi
  IN  MulFix(MulFix(Scale - f, Scale - g), P(i, j, k))
      + MulFix(MulFix(f, Scale - g), P(i + 1, j, k))
      + MulFix(MulFix(Scale - f, g), P(i, j + 1, k))
      + MulFix(MulFix(f, g), P(i + 1, j + 1, k))

\* The sum of the first n values of raw.
RECURSIVE RawSum(_, _)
RawSum(raw, n) == IF n = 0 THEN 0 ELSE RawSum(raw, n - 1) + raw[n - 1]

\* C16: before the re-normalization the probability of rotamer k is the
\* bilinear combination of the four corner probabilities in which frac_phi
\* weights the cells at phi index lo_phi + 1 and frac_psi the cells at psi
\* index lo_psi + 1, and the returned probability is that value divided by
\* the sum of the R such values (to within the rounding of the division).
C16_ProbBilinear ==
  \A t \in Threads :
    (pc[t] = "ready" /\ IsFin(loc[t].frac_phi) /\ IsFin(loc[t].frac_psi)) =>
      \E cs \in {Corners(table, loc[t])} :
      \E raw \in {[k \in 0..(R - 1) |-> RawProb(t, k)]} :
      \E sum \in {RawSum(raw, R)} :
        /\ sum > 0
        /\ \A k \in 0..(R - 1) :
             /\ bilinear(loc[t].w, [c \in Corner |-> cs[c][k].prob]) = Fin(raw[k])
             /\ IsFin(items[t][k].prob)
             /\ Abs(items[t][k].prob.v * sum - raw[k] * Scale) <= 2 * sum

\* A query between grid points on both axes, with different fractions, over
\* cells whose probabilities differ along phi and along psi.
C16_Witness ==
  \E t \in Threads :
    /\ pc[t] = "ready"
    /\ phi[t] = Deg(-175) /\ psi[t] = Deg(64)
    /\ loc[t].frac_phi # loc[t].frac_psi
    /\ P(loc[t].lo_phi + 1, loc[t].lo_psi, 0) # P(loc[t].lo_phi, loc[t].lo_psi + 1, 0)
    /\ items[t][0].prob.v > 0

\* The four corner cells with every entry other than k made unusable: bins 0
\* and NaN for each number.
OnlyEntry(cs, k) ==
  [c \in Corner |-> [j \in DOMAIN cs[c] |->
     IF j = k THEN cs[c][j]
     ELSE Rotamer([i \in DOMAIN cs[c][j].r |-> 0], NaN,
                  [i \in DOMAIN cs[c][j].chi_mean |-> NaN],
                  [i \in DOMAIN cs[c][j].chi_sigma |-> NaN])]]

\* The ordering invariant of the generated tables on the corner cells: entry
\* k has the same bins in the four cells, and every bin is at least 1.
OrderingInvariant(cs) ==
  \A c \in Corner : \A k \in DOMAIN cs[c] :
    /\ cs[c][k].r = cs[0][k].r
    /\ \A i \in DOMAIN cs[c][k].r : cs[c][k].r[i] >= 1

\* C17: item k of the result is computed from entry k of the four corner
\* cells alone and carries the bins of entry k of cell (lo_phi, lo_psi); when
\* the corner cells satisfy the ordering invariant with bins >= 1, these are
\* the bins of entry k at all four corners and are >= 1.
C17_NoResort ==
  \A t \in Threads : pc[t] = "ready" =>
    \E cs \in {Corners(table, loc[t])} :
    \E inv \in {FDiv(One, SumProb(FromFn(cs, loc[t].w, residue), R))} :
      \A k \in 0..(R - 1) :
        /\ items[t][k].r = table[loc[t].lo_phi][loc[t].lo_psi][k].r
        /\ \E only \in {Interpolate(OnlyEntry(cs, k), loc[t].w, k, N)} :
             /\ items[t][k].r = only.r
             /\ items[t][k].chi_mean = only.chi_mean
             /\ items[t][k].chi_sigma = only.chi_sigma
             /\ items[t][k].prob = FMul(only.prob, inv)
        /\ OrderingInvariant(cs) =>
             /\ \A c \in Corner : items[t][k].r = cs[c][k].r
             /\ \A i \in 0..(N - 1) : items[t][k].r[i] >= 1

\* A query between grid points over corner cells that satisfy the ordering
\* invariant, whose entries 0 and 1 have different bins and probabilities in
\* another order from one corner to the other, has returned its items.
C17_Witness ==
  \E t \in Threads :
    /\ pc[t] = "ready"
    /\ phi[t] = Deg(-175) /\ psi[t] = Deg(64)
    /\ OrderingInvariant(Corners(table, loc[t]))
    /\ items[t][0].r # items[t][1].r
    /\ \E c1 \in Corner : \E c2 \in Corner :
         /\ FLt(Corners(table, loc[t])[c1][0].prob, Corners(table, loc[t])[c1][1].prob)
         /\ FGt(Corners(table, loc[t])[c2][0].prob, Corners(table, loc[t])[c2][1].prob)

\* The stored means of chi i of rotamer k at the four corners of the query.
CornerMeans(t, k, i) == [c \in Corner |-> Corners(table, loc[t])[c][k].chi_mean[i]]

\* Both arguments that circular_mean hands to atan2f are zero.
BothZero(w, angles) == sin_sum(w, angles) = Zero /\ cos_sum(w, angles) = Zero

CircDist(a, b) == MinI(Abs(a.v - b.v), 360 * Scale - Abs(a.v - b.v))

\* The corners that carry a non-zero weight hold angles no more than 90
\* degrees apart.
WithinQuarterTurn(w, angles) ==
  \A c1 \in Corner : \A c2 \in Corner :
    (w[c1] # Zero /\ w[c2] # Zero) => CircDist(angles[c1], angles[c2]) <= 90 * Scale

Atan2Args(t) ==
  {yx \in {<<sin_sum(loc[t].w, CornerMeans(t, k, i)), cos_sum(loc[t].w, CornerMeans(t, k, i))>> :
             k \in 0..(R - 1), i \in 0..(N - 1)} :
     yx # <<Zero, Zero>>}

\* t = min(|x|, |y|) / max(|x|, |y|), written out.
RatioOf(y, x) == FDiv(Fin(MinI(Abs(x.v), Abs(y.v))), Fin(MaxI(Abs(x.v), Abs(y.v))))

CursorInRange(t) ==
  /\ idx[t] \in 0..R
  /\ len(t) = [panic |-> FALSE, v |-> R - idx[t]]
  /\ size_hint(t) = [panic |-> FALSE, v |-> <<len(t).v, Some(len(t).v)>>]

\* C20: in every reachable state of a RotamerIter 0 <= idx <= R, len() is R
\* minus the number of items already yielded (R on a new iterator, one less
\* after each call of next that yields an item) and size_hint() is
\* (len, Some(len)); once idx = R a call of next changes neither the cursor
\* nor the items, so R - idx never underflows.
C20_CursorWithinR ==
  /\ [](\A t \in Threads : pc[t] = "ready" => CursorInRange(t))
  /\ [][\A t \in Threads :
          /\ (pc[t] # "ready" /\ pc'[t] = "ready") => len(t)'.v = R
          /\ (pc[t] = "ready" /\ pc'[t] = "ready") =>
               /\ ret'[t].tag = "Some" => len(t)'.v = len(t).v - 1
               /\ ret'[t].tag = "None" => len(t)'.v = len(t).v
               /\ idx[t] = R => (idx'[t] = R /\ items'[t] = items[t] /\ ret'[t] = None)]_vars

\* A consumed iterator on which next has been called once more: the cursor
\* stays at R and len is 0.
C20_Witness ==
  \E t \in Threads :
    /\ pc[t] = "ready"
    /\ calls[t] = R + 1
    /\ idx[t] = R
    /\ len(t).v = 0
    /\ size_hint(t).v = <<0, Some(0)>>

\* The cells at grid index 0 and at the last grid index hold the same data
\* along phi, along psi.
PeriodicPhi == \A j \in 0..(GRID_COUNT - 1) : table[0][j] = table[GRID_COUNT - 1][j]
PeriodicPsi == \A i \in 0..(GRID_COUNT - 1) : table[i][0] = table[i][GRID_COUNT - 1]

\* -180, +180, or an angle out of range that is saturated to one of them.
IsEnd(x) == IsInf(x) \/ (IsFin(x) /\ Abs(x.v) >= 180 * Scale)

\* C21: on a table whose cells at grid index 0 and grid index 36 hold the
\* same data along an axis, two queries whose angles on that axis are -180,
\* +180 or out-of-range angles saturated to either end, and whose other angle
\* is the same, return the same rotamers.
C21_PeriodicBoundary ==
  \A t1 \in Pair : \A t2 \in Pair :
    (t1 < t2 /\ pc[t1] = "ready" /\ pc[t2] = "ready") =>
      /\ (IsEnd(phi[t1]) /\ IsEnd(phi[t2]) /\ psi[t1] = psi[t2] /\ PeriodicPhi)
           => items[t1] = items[t2]
      /\ (IsEnd(psi[t1]) /\ IsEnd(psi[t2]) /\ phi[t1] = phi[t2] /\ PeriodicPsi)
           => items[t1] = items[t2]

\* One caller holds the result of a query at phi = -180 and the other that of
\* a query at phi = +180, for the same psi between grid points, on a table
\* that is periodic along phi and whose cells next to the two ends differ.
C21_Witness ==
  /\ pc[1] = "ready" /\ pc[2] = "ready"
  /\ phi[1] = Deg(-180) /\ phi[2] = Deg(180)
  /\ psi[1] = Deg(64) /\ psi[2] = Deg(64)
  /\ PeriodicPhi
  /\ loc[1].lo_phi = 0 /\ loc[2].lo_phi = GRID_COUNT - 2
  /\ table[1][loc[1].lo_psi] # table[GRID_COUNT - 2][loc[2].lo_psi]
  /\ DOMAIN items[1] = 0..(R - 1)
  /\ items[1] = items[2]

====
